---------------------------- MODULE Spec2Model ----------------------------
(***************************************************************************)
(* The soulzip archive pipeline of utils.py: pack_newspaper_page,          *)
(* unpack_newspaper_page and validate_reconstruction, over a POSIX file    *)
(* system.                                                                 *)
(*                                                                         *)
(* Bytes, characters and code points are integers; byte strings, Python    *)
(* str values and paths are sequences of them.  A file system is a         *)
(* function from resolved paths (sequences of component names) to byte     *)
(* strings, plus the set of directories.                                   *)
(*                                                                         *)
(* Library code is modelled by what it does on the values the model feeds  *)
(* it:                                                                     *)
(*   hashlib.sha256  an ideal (collision-free) digest: the hex string of   *)
(*                   the hashed bytes themselves;                          *)
(*   base64          RFC 4648 encoding, and CPython's non-strict decoder;  *)
(*   utf-8, text I/O the codec, and universal-newline translation;         *)
(*   json            objects and strings without escapes;                  *)
(*   zstandard       a frame of a magic number and raw blocks, the last    *)
(*                   one flagged, with no content checksum (the default    *)
(*                   of ZstdCompressor); a block holds CHUNK_SIZE bytes.   *)
(* The manifest keeps version, image_filename, text_filename, image_hash   *)
(* and text_hash; soulzip_spec, page_metadata and layout_info are inert    *)
(* metadata no operation reads, and are left out.                          *)
(***************************************************************************)
EXTENDS Integers, Sequences, FiniteSets, TLC

(***************************************************************************)
(* Bounds of the model.                                                    *)
(***************************************************************************)
MaxTextLen == 2
MaxImageLen == 1
MaxNameLen == 4
MaxCalls == 3
MaxChunks == 2

\* encoder.py / decoder.py CHUNK_SIZE = 1024 * 1024, scaled to the size of
\* the model's bundles (so that a bundle spans several chunks)
CHUNK_SIZE == 64

(***************************************************************************)
(* Generic helpers on sequences.                                           *)
(***************************************************************************)
Take(s, n) == SubSeq(s, 1, n)
Drop(s, n) == SubSeq(s, n + 1, Len(s))
IsPrefix(p, s) == Len(p) <= Len(s) /\ Take(s, Len(p)) = p
Min(S) == CHOOSE x \in S : \A y \in S : x <= y
Max(S) == CHOOSE x \in S : \A y \in S : x >= y

RECURSIVE SeqsUpTo(_, _)
SeqsUpTo(A, n) ==
    IF n = 0 THEN {<<>>}
    ELSE LET S == SeqsUpTo(A, n - 1)
         IN  S \cup {Append(s, a) : s \in {t \in S : Len(t) = n - 1}, a \in A}

(***************************************************************************)
(* hashlib.sha256(data).hexdigest().                                       *)
(***************************************************************************)
HexDigits == <<48, 49, 50, 51, 52, 53, 54, 55, 56, 57, 97, 98, 99, 100, 101, 102>>

Sha256Hex(b) ==
    [i \in 1..(2 * Len(b)) |->
        IF i % 2 = 1 THEN HexDigits[(b[(i + 1) \div 2] \div 16) + 1]
                     ELSE HexDigits[(b[i \div 2] % 16) + 1]]

(***************************************************************************)
(* The utf-8 codec: bytes.decode('utf-8') and str.encode('utf-8').         *)
(***************************************************************************)
IsCont(b, i) == i <= Len(b) /\ b[i] >= 128 /\ b[i] <= 191
InRange(b, i, lo, hi) == i <= Len(b) /\ b[i] >= lo /\ b[i] <= hi

RECURSIVE Utf8DecodeFrom(_, _, _)
Utf8DecodeFrom(b, i, out) ==
    IF i > Len(b) THEN [ok |-> TRUE, s |-> out]
    ELSE LET c == b[i] IN
      IF c < 128 THEN Utf8DecodeFrom(b, i + 1, Append(out, c))
      ELSE IF c >= 194 /\ c <= 223 THEN
        IF IsCont(b, i + 1)
        THEN Utf8DecodeFrom(b, i + 2, Append(out, (c - 192) * 64 + (b[i + 1] - 128)))
        ELSE [ok |-> FALSE, s |-> <<>>]
      ELSE IF c >= 224 /\ c <= 239 THEN
        IF /\ InRange(b, i + 1, IF c = 224 THEN 160 ELSE 128, IF c = 237 THEN 159 ELSE 191)
           /\ IsCont(b, i + 2)
        THEN Utf8DecodeFrom(b, i + 3,
                 Append(out, (c - 224) * 4096 + (b[i + 1] - 128) * 64 + (b[i + 2] - 128)))
        ELSE [ok |-> FALSE, s |-> <<>>]
      ELSE IF c >= 240 /\ c <= 244 THEN
        IF /\ InRange(b, i + 1, IF c = 240 THEN 144 ELSE 128, IF c = 244 THEN 143 ELSE 191)
           /\ IsCont(b, i + 2) /\ IsCont(b, i + 3)
        THEN Utf8DecodeFrom(b, i + 4,
                 Append(out, (c - 240) * 262144 + (b[i + 1] - 128) * 4096
                             + (b[i + 2] - 128) * 64 + (b[i + 3] - 128)))
        ELSE [ok |-> FALSE, s |-> <<>>]
      ELSE [ok |-> FALSE, s |-> <<>>]

\* A long input is cut at a byte that starts a character (four
\* continuation bytes in a row are never valid) and decoded in halves.
RECURSIVE Utf8Decode(_)
Utf8Decode(b) ==
    IF Len(b) <= 8 THEN Utf8DecodeFrom(b, 1, <<>>)
    ELSE LET m == Len(b) \div 2
             cuts == {j \in m..(m + 3) : b[j] < 128 \/ b[j] > 191}
         IN  IF cuts = {} THEN [ok |-> FALSE, s |-> <<>>]
             ELSE LET l == Utf8Decode(Take(b, Min(cuts) - 1))
                      r == Utf8Decode(Drop(b, Min(cuts) - 1))
                  IN  IF l.ok /\ r.ok THEN [ok |-> TRUE, s |-> l.s \o r.s]
                      ELSE [ok |-> FALSE, s |-> <<>>]

Utf8EncodeChar(c) ==
    IF c < 128 THEN <<c>>
    ELSE IF c < 2048 THEN <<192 + (c \div 64), 128 + (c % 64)>>
    ELSE IF c < 65536
         THEN <<224 + (c \div 4096), 128 + ((c \div 64) % 64), 128 + (c % 64)>>
    ELSE <<240 + (c \div 262144), 128 + ((c \div 4096) % 64),
           128 + ((c \div 64) % 64), 128 + (c % 64)>>

RECURSIVE Utf8Encode(_)
Utf8Encode(s) ==
    IF s = <<>> THEN <<>>
    ELSE IF Len(s) = 1 THEN Utf8EncodeChar(s[1])
    ELSE Utf8Encode(Take(s, Len(s) \div 2)) \o Utf8Encode(Drop(s, Len(s) \div 2))

(***************************************************************************)
(* Text-mode file I/O, open(path, 'r' / 'w', encoding='utf-8') with the    *)
(* default newline=None: reading turns "\r\n" and "\r" into "\n", writing  *)
(* turns "\n" into os.linesep.                                             *)
(***************************************************************************)
LineSep == <<10>>

RECURSIVE UniversalNewlines(_)
UniversalNewlines(s) ==
    IF s = <<>> THEN <<>>
    ELSE IF Head(s) = 13
         THEN IF Len(s) >= 2 /\ s[2] = 10
              THEN <<10>> \o UniversalNewlines(Drop(s, 2))
              ELSE <<10>> \o UniversalNewlines(Tail(s))
         ELSE <<Head(s)>> \o UniversalNewlines(Tail(s))

RECURSIVE WriteNewlines(_)
WriteNewlines(s) ==
    IF s = <<>> THEN <<>>
    ELSE (IF Head(s) = 10 THEN LineSep ELSE <<Head(s)>>) \o WriteNewlines(Tail(s))

\* f.read() of a text-mode file holding bytes b
TextRead(b) ==
    LET d == Utf8Decode(b)
    IN  IF d.ok THEN [ok |-> TRUE, s |-> UniversalNewlines(d.s)]
        ELSE [ok |-> FALSE, s |-> <<>>]

\* the bytes f.write(s) leaves in a text-mode file
TextWrite(s) == Utf8Encode(WriteNewlines(s))

(***************************************************************************)
(* utils.generate_sha256_hash: a str is encoded to utf-8 before hashing.   *)
(***************************************************************************)
generate_sha256_hash_bytes(data) == Sha256Hex(data)
generate_sha256_hash_str(data) == Sha256Hex(Utf8Encode(data))

(***************************************************************************)
(* base64.b64encode and base64.b64decode (validate=False).                 *)
(***************************************************************************)
B64Alphabet ==
    <<65, 66, 67, 68, 69, 70, 71, 72, 73, 74, 75, 76, 77, 78, 79, 80, 81, 82, 83,
      84, 85, 86, 87, 88, 89, 90, 97, 98, 99, 100, 101, 102, 103, 104, 105, 106,
      107, 108, 109, 110, 111, 112, 113, 114, 115, 116, 117, 118, 119, 120, 121,
      122, 48, 49, 50, 51, 52, 53, 54, 55, 56, 57, 43, 47>>
B64Pad == <<61>>

b64encode(b) ==
    LET n == Len(b)
        B(i) == IF i <= n THEN b[i] ELSE 0
        Ch(k) ==
            LET g == (k - 1) \div 4
                j == (k - 1) % 4
                b0 == B(3 * g + 1)
                b1 == B(3 * g + 2)
                b2 == B(3 * g + 3)
            IN  IF j = 0 THEN B64Alphabet[(b0 \div 4) + 1]
                ELSE IF j = 1 THEN B64Alphabet[((b0 % 4) * 16 + (b1 \div 16)) + 1]
                ELSE IF j = 2 THEN
                    IF 3 * g + 2 > n THEN B64Pad[1]
                    ELSE B64Alphabet[((b1 % 16) * 4 + (b2 \div 64)) + 1]
                ELSE IF 3 * g + 3 > n THEN B64Pad[1]
                     ELSE B64Alphabet[(b2 % 64) + 1]
    IN  [k \in 1..(4 * ((n + 2) \div 3)) |-> Ch(k)]

\* table_a2b_base64: the value of an alphabet character, 64 for any other
B64Value(ch) ==
    IF \E k \in 1..64 : B64Alphabet[k] = ch
    THEN (CHOOSE k \in 1..64 : B64Alphabet[k] = ch) - 1
    ELSE 64

\* binascii.a2b_base64 in non-strict mode: characters outside the alphabet
\* are skipped, decoding stops at the padding that completes a quad, and
\* only an incomplete final quad is an error
RECURSIVE a2b_base64(_, _, _, _, _, _)
a2b_base64(data, i, quad_pos, leftchar, pads, out) ==
    IF i > Len(data)
    THEN [ok |-> quad_pos = 0, bytes |-> IF quad_pos = 0 THEN out ELSE <<>>]
    ELSE LET ch == data[i] IN
      IF ch = B64Pad[1] THEN
        IF quad_pos >= 2 /\ quad_pos + pads + 1 >= 4
        THEN [ok |-> TRUE, bytes |-> out]
        ELSE a2b_base64(data, i + 1, quad_pos, leftchar,
                        IF quad_pos >= 2 THEN pads + 1 ELSE pads, out)
      ELSE LET v == B64Value(ch) IN
        IF v >= 64 THEN a2b_base64(data, i + 1, quad_pos, leftchar, pads, out)
        ELSE IF quad_pos = 0 THEN a2b_base64(data, i + 1, 1, v, 0, out)
        ELSE IF quad_pos = 1
             THEN a2b_base64(data, i + 1, 2, v % 16, 0,
                             Append(out, leftchar * 4 + (v \div 16)))
        ELSE IF quad_pos = 2
             THEN a2b_base64(data, i + 1, 3, v % 4, 0,
                             Append(out, leftchar * 16 + (v \div 4)))
        ELSE a2b_base64(data, i + 1, 0, 0, 0, Append(out, leftchar * 64 + v))

b64decode(data) == a2b_base64(data, 1, 0, 0, 0, <<>>)

\* utils.safe_b64_decode: any error of base64.b64decode (a str with a
\* non-ASCII character, an incomplete quad) becomes ValueError
safe_b64_decode(data) ==
    IF \E i \in 1..Len(data) : data[i] > 127 THEN [ok |-> FALSE, bytes |-> <<>>]
    ELSE b64decode(data)

(***************************************************************************)
(* json.dumps(bundle_data, ensure_ascii=False) and json.loads, for objects *)
(* whose values are strings or objects.  A parsed value is a record        *)
(* [t |-> "str", s |-> characters] or [t |-> "obj", o |-> key -> value].   *)
(* No string of the model holds a quote, a backslash or a control          *)
(* character, so dumps writes strings verbatim; loads rejects the escapes  *)
(* and the value kinds (numbers, arrays, literals) dumps never writes here.*)
(***************************************************************************)
K_manifest == <<109, 97, 110, 105, 102, 101, 115, 116>>
K_original_image_b64 ==
    <<111, 114, 105, 103, 105, 110, 97, 108, 95, 105, 109, 97, 103, 101, 95, 98, 54, 52>>
K_original_text_b64 ==
    <<111, 114, 105, 103, 105, 110, 97, 108, 95, 116, 101, 120, 116, 95, 98, 54, 52>>
K_version == <<118, 101, 114, 115, 105, 111, 110>>
K_image_filename == <<105, 109, 97, 103, 101, 95, 102, 105, 108, 101, 110, 97, 109, 101>>
K_text_filename == <<116, 101, 120, 116, 95, 102, 105, 108, 101, 110, 97, 109, 101>>
K_image_hash == <<105, 109, 97, 103, 101, 95, 104, 97, 115, 104>>
K_text_hash == <<116, 101, 120, 116, 95, 104, 97, 115, 104>>
\* "1.0"
VersionString == <<49, 46, 48>>

JStr(s) == [t |-> "str", s |-> s]
JObj(o) == [t |-> "obj", o |-> o]
IsStr(v) == v.t = "str"
IsObj(v) == v.t = "obj"
HasKey(v, k) == IsObj(v) /\ k \in DOMAIN v.o

\* '"' + s + '"'
JsonString(s) == <<34>> \o s \o <<34>>
\* '"key": '
JsonKey(k) == JsonString(k) \o <<58, 32>>
JsonSep == <<44, 32>>

\* json.dumps of the manifest dict, keys in insertion order
DumpManifest(m) ==
    <<123>> \o JsonKey(K_version) \o JsonString(m.version) \o JsonSep
            \o JsonKey(K_image_filename) \o JsonString(m.image_filename) \o JsonSep
            \o JsonKey(K_text_filename) \o JsonString(m.text_filename) \o JsonSep
            \o JsonKey(K_image_hash) \o JsonString(m.image_hash) \o JsonSep
            \o JsonKey(K_text_hash) \o JsonString(m.text_hash) \o <<125>>

\* json.dumps(bundle_data, ensure_ascii=False).encode('utf-8')
json_dumps(bundle) ==
    Utf8Encode(
        <<123>> \o JsonKey(K_manifest) \o DumpManifest(bundle.manifest) \o JsonSep
                \o JsonKey(K_original_image_b64)
                \o JsonString(bundle.original_image_b64) \o JsonSep
                \o JsonKey(K_original_text_b64)
                \o JsonString(bundle.original_text_b64) \o <<125>>)

JsonWs == {32, 9, 10, 13}
JsonFail == [ok |-> FALSE, v |-> JStr(<<>>), i |-> 0]

\* the first index from i on that holds no whitespace
RECURSIVE SkipWs(_, _)
SkipWs(doc, i) ==
    IF i <= Len(doc) /\ doc[i] \in JsonWs THEN SkipWs(doc, i + 1) ELSE i

\* the index of the first '"' from j on, or past the end
RECURSIVE FindQuote(_, _)
FindQuote(doc, j) ==
    IF j <= Len(doc) /\ doc[j] # 34 THEN FindQuote(doc, j + 1) ELSE j

\* doc[i] is the opening quote
ParseString(doc, i) ==
    LET j == FindQuote(doc, i + 1)
    IN  IF j > Len(doc) THEN JsonFail
        ELSE LET body == SubSeq(doc, i + 1, j - 1)
             IN  IF \E k \in 1..Len(body) : body[k] < 32 \/ body[k] = 92
                 THEN JsonFail
                 ELSE [ok |-> TRUE, v |-> JStr(body), i |-> j + 1]

RECURSIVE ParseValue(_, _)
RECURSIVE ParseMembers(_, _, _)
RECURSIVE MutParseMembers(_, _, _)
\* ParseMembers with the end of the input closing the object
MutParseMembers(doc, i, acc) ==
    IF i > Len(doc) \/ doc[i] # 34 THEN JsonFail
    ELSE LET k == ParseString(doc, i) IN
      IF ~k.ok THEN JsonFail
      ELSE LET c == SkipWs(doc, k.i) IN
        IF c > Len(doc) \/ doc[c] # 58 THEN JsonFail
        ELSE LET v == ParseValue(doc, SkipWs(doc, c + 1)) IN
          IF ~v.ok THEN JsonFail
          ELSE LET e == SkipWs(doc, v.i)
                   acc2 == (k.v.s :> v.v) @@ acc
               IN  IF e > Len(doc) \/ doc[e] = 125
                   THEN [ok |-> TRUE, v |-> JObj(acc2), i |-> e + 1]
                   ELSE IF doc[e] = 44
                        THEN MutParseMembers(doc, SkipWs(doc, e + 1), acc2)
                   ELSE JsonFail

\* the members of an object from the key at doc[i] on; acc holds those read
ParseMembers(doc, i, acc) ==
    IF i > Len(doc) \/ doc[i] # 34 THEN JsonFail
    ELSE LET k == ParseString(doc, i) IN
      IF ~k.ok THEN JsonFail
      ELSE LET c == SkipWs(doc, k.i) IN
        IF c > Len(doc) \/ doc[c] # 58 THEN JsonFail
        ELSE LET v == ParseValue(doc, SkipWs(doc, c + 1)) IN
          IF ~v.ok THEN JsonFail
          ELSE LET e == SkipWs(doc, v.i)
                   acc2 == (k.v.s :> v.v) @@ acc
               IN  IF e > Len(doc) THEN JsonFail
                   ELSE IF doc[e] = 125
                        THEN [ok |-> TRUE, v |-> JObj(acc2), i |-> e + 1]
                   ELSE IF doc[e] = 44
                        THEN ParseMembers(doc, SkipWs(doc, e + 1), acc2)
                   ELSE JsonFail

ParseValue(doc, i) ==
    IF i > Len(doc) THEN JsonFail
    ELSE IF doc[i] = 34 THEN ParseString(doc, i)
    ELSE IF doc[i] = 123 THEN
        LET j == SkipWs(doc, i + 1)
        IN  IF j <= Len(doc) /\ doc[j] = 125
            THEN [ok |-> TRUE, v |-> JObj(<<>>), i |-> j + 1]
            ELSE ParseMembers(doc, j, <<>>)
    ELSE JsonFail

\* json.loads(s): one value, with nothing but whitespace around it
json_loads(doc) ==
    LET v == ParseValue(doc, SkipWs(doc, 1))
    IN  IF v.ok /\ SkipWs(doc, v.i) > Len(doc)
        THEN [ok |-> TRUE, v |-> v.v]
        ELSE [ok |-> FALSE, v |-> JStr(<<>>)]

(***************************************************************************)
(* zstandard.  A frame is the magic number followed by raw blocks, each a  *)
(* flag byte (1 on the last block), a length byte and the data.  The       *)
(* streaming compressor buffers its input and emits a block when CHUNK_SIZE*)
(* bytes are buffered; ending the frame emits what is buffered as the last *)
(* block.  z is the compressor's state: [hdr, buf].                        *)
(***************************************************************************)
ZstdMagic == <<40, 181, 47, 253>>
ZstdNew == [hdr |-> FALSE, buf |-> <<>>]

\* compressor.write(chunk): [z |-> the new state, out |-> bytes written to f_out]
ZstdWrite(z, chunk) ==
    LET b == z.buf \o chunk
    IN  IF Len(b) >= CHUNK_SIZE
        THEN [z |-> [hdr |-> TRUE, buf |-> Drop(b, CHUNK_SIZE)],
              out |-> (IF z.hdr THEN <<>> ELSE ZstdMagic)
                      \o <<0, CHUNK_SIZE>> \o Take(b, CHUNK_SIZE)]
        ELSE [z |-> [hdr |-> z.hdr, buf |-> b], out |-> <<>>]

\* leaving "with cctx.stream_writer(f_out)": the bytes that end the frame
ZstdEnd(z) ==
    (IF z.hdr THEN <<>> ELSE ZstdMagic) \o <<1, Len(z.buf)>> \o z.buf

\* the frame's blocks from offset i on; out holds the data decoded so far.
\* On a frame that stops short, data is what the complete blocks hold and
\* partial adds the bytes present of the block that is cut.
RECURSIVE ZstdBlocks(_, _, _)
ZstdBlocks(c, i, out) ==
    IF i > Len(c) THEN [status |-> "truncated", data |-> out, partial |-> out]
    ELSE IF c[i] \notin {0, 1} THEN [status |-> "error", data |-> <<>>, partial |-> <<>>]
    ELSE IF i + 1 > Len(c) THEN [status |-> "truncated", data |-> out, partial |-> out]
    ELSE IF c[i + 1] > CHUNK_SIZE
         THEN [status |-> "error", data |-> <<>>, partial |-> <<>>]
    ELSE IF i + 1 + c[i + 1] > Len(c)
         THEN [status |-> "truncated", data |-> out,
               partial |-> out \o SubSeq(c, i + 2, Len(c))]
    ELSE LET d == out \o SubSeq(c, i + 2, i + 1 + c[i + 1])
         IN  IF c[i] = 1 THEN [status |-> "ok", data |-> d, partial |-> d]
             ELSE ZstdBlocks(c, i + 2 + c[i + 1], d)

ZstdDecode(c) ==
    IF Len(c) < Len(ZstdMagic)
    THEN IF IsPrefix(c, ZstdMagic)
         THEN [status |-> "truncated", data |-> <<>>, partial |-> <<>>]
         ELSE [status |-> "error", data |-> <<>>, partial |-> <<>>]
    ELSE IF ~IsPrefix(ZstdMagic, c) THEN [status |-> "error", data |-> <<>>, partial |-> <<>>]
    ELSE ZstdBlocks(c, Len(ZstdMagic) + 1, <<>>)

\* What the read loop over dctx.stream_reader(f_in) can collect from a file
\* holding c.  On a frame that stops short the library either raises
\* ZstdError or reports end of stream after the data it decoded (whole
\* blocks, or also the part present of the last one), depending on its
\* version: each outcome is possible.
DecompressOutcomes(c) ==
    LET r == ZstdDecode(c)
    IN  IF r.status = "ok" THEN {[ok |-> TRUE, data |-> r.data]}
        ELSE IF r.status = "error" THEN {[ok |-> FALSE, data |-> <<>>]}
        ELSE {[ok |-> FALSE, data |-> <<>>], [ok |-> TRUE, data |-> r.data],
              [ok |-> TRUE, data |-> r.partial]}

\* the frame a compressor fed doc in chunks of CHUNK_SIZE writes
RECURSIVE CompressFrom(_, _, _)
CompressFrom(doc, i, z) ==
    IF i >= Len(doc) THEN ZstdEnd(z)
    ELSE LET w == ZstdWrite(z, SubSeq(doc, i + 1, Min({i + CHUNK_SIZE, Len(doc)})))
         IN  w.out \o CompressFrom(doc, i + CHUNK_SIZE, w.z)
Compress(doc) == CompressFrom(doc, 0, ZstdNew)

(***************************************************************************)
(* posixpath and the file system.                                          *)
(***************************************************************************)
Slash == <<47>>
Dot == <<46>>
DotDot == <<46, 46>>

LastSlash(p) ==
    LET S == {i \in 1..Len(p) : p[i] = Slash[1]} IN IF S = {} THEN 0 ELSE Max(S)

\* os.path.basename
basename(p) == Drop(p, LastSlash(p))

RECURSIVE RStripSlash(_)
RStripSlash(p) ==
    IF p # <<>> /\ p[Len(p)] = Slash[1] THEN RStripSlash(Take(p, Len(p) - 1)) ELSE p

\* os.path.dirname
dirname(p) ==
    LET head == Take(p, LastSlash(p))
    IN  IF head # <<>> /\ \E i \in 1..Len(head) : head[i] # Slash[1]
        THEN RStripSlash(head) ELSE head

\* os.path.join(a, b)
join(a, b) ==
    IF b # <<>> /\ b[1] = Slash[1] THEN b
    ELSE IF a = <<>> \/ a[Len(a)] = Slash[1] THEN a \o b
    ELSE a \o Slash \o b

\* p.split('/')
RECURSIVE SplitPath(_)
SplitPath(p) ==
    LET S == {i \in 1..Len(p) : p[i] = Slash[1]}
    IN  IF S = {} THEN <<p>>
        ELSE <<Take(p, Min(S) - 1)>> \o SplitPath(Drop(p, Min(S)))

Root == <<>>
\* the working directory, "/w"
Cwd == << <<119>> >>
Parent(r) == IF r = Root THEN Root ELSE Take(r, Len(r) - 1)

\* Path resolution: every component is looked up in a directory.
RECURSIVE Walk(_, _, _)
Walk(ds, cur, comps) ==
    IF comps = <<>> THEN [ok |-> TRUE, path |-> cur]
    ELSE IF cur \notin ds THEN [ok |-> FALSE, path |-> cur]
    ELSE LET c == Head(comps)
         IN  Walk(ds,
                  IF c = <<>> \/ c = Dot THEN cur
                  ELSE IF c = DotDot THEN Parent(cur)
                  ELSE Append(cur, c),
                  Tail(comps))

Resolve(ds, p) ==
    IF p = <<>> THEN [ok |-> FALSE, path |-> Root]
    ELSE Walk(ds, IF p[1] = Slash[1] THEN Root ELSE Cwd, SplitPath(p))

\* os.path.abspath(p): the path by its components alone
abspath(p) == Resolve(Seq(Seq(0..255)), p).path

\* open(p, 'rb') / open(p, 'r'): the resolved path of a readable file
CanRead(fs, ds, p) == Resolve(ds, p).ok /\ Resolve(ds, p).path \in DOMAIN fs
\* open(p, 'wb') / open(p, 'w'): the file is created or truncated
CanCreate(fs, ds, p) == Resolve(ds, p).ok /\ Resolve(ds, p).path \notin ds
FileAt(fs, ds, p) == fs[Resolve(ds, p).path]
WithFile(fs, r, data) == [q \in DOMAIN fs \cup {r} |-> IF q = r THEN data ELSE fs[q]]

\* os.makedirs(p, exist_ok=True): [ok, dirs]
RECURSIVE MakeWalk(_, _, _, _)
\* os.makedirs(p) without exist_ok: an existing directory is an error
MutMakedirs(fs, ds, p) ==
    IF p = <<>> \/ (Resolve(ds, p).ok /\ Resolve(ds, p).path \in ds)
    THEN [ok |-> FALSE, dirs |-> ds]
    ELSE MakeWalk(fs, ds, IF p[1] = Slash[1] THEN Root ELSE Cwd, SplitPath(p))

MakeWalk(fs, ds, cur, comps) ==
    IF comps = <<>> THEN [ok |-> TRUE, dirs |-> ds]
    ELSE LET c == Head(comps)
             nxt == IF c = <<>> \/ c = Dot THEN cur
                    ELSE IF c = DotDot THEN Parent(cur)
                    ELSE Append(cur, c)
         IN  IF nxt \in DOMAIN fs THEN [ok |-> FALSE, dirs |-> ds]
             ELSE MakeWalk(fs, ds \cup {nxt}, nxt, Tail(comps))

makedirs(fs, ds, p) ==
    IF p = <<>> THEN [ok |-> FALSE, dirs |-> ds]
    ELSE MakeWalk(fs, ds, IF p[1] = Slash[1] THEN Root ELSE Cwd, SplitPath(p))

(***************************************************************************)
(* The program state.                                                      *)
(*   files, dirs   the file system                                         *)
(*   args          the arguments the calls are made with: image_path,      *)
(*                 ocr_text_path, output_filepath (also the archive that   *)
(*                 unpack is given) and output_dir                         *)
(*   pc            the statement the running call executes next, or "idle" *)
(*   pk, up        the local variables of pack and of unpack               *)
(*   packResult, unpackResult, validation                                  *)
(*                 what the last call of each function returned or raised  *)
(*   calls, log    the number of calls made, and the calls that ended and  *)
(*                 the environment's acts, in order                        *)
(*   snap          the file system when the running (or last) call began,  *)
(*                 and the files when the call before it began             *)
(*   written       the resolved paths that call opened for writing         *)
(*   env           what the environment did: the archive it forged and    *)
(*                 the reconstructed file it changed a byte of             *)
(*   workers       two calls that run at the same time: for each its       *)
(*                 function, arguments, next statement, locals and result  *)
(*   codec         the two streaming loops on their own: the bytes x to    *)
(*                 write, the compressor, what it was fed, the frame       *)
(*                 written and the buffer the reader fills                 *)
(***************************************************************************)
VARIABLES files, dirs, args, pc, pk, up, packResult, unpackResult, validation,
          calls, log, snap, written, env, codec, workers

vars == <<files, dirs, args, pc, pk, up, packResult, unpackResult, validation,
          calls, log, snap, written, env, codec, workers>>

\* the last call to end (or act of the environment)
last == IF log = <<>> THEN "none" ELSE log[Len(log)]
LogEnds(s) == Len(log) >= Len(s) /\ SubSeq(log, Len(log) - Len(s) + 1, Len(log)) = s

\* "i/a", "i/t", "j/a", "i/m", "o/z", "o/a", "z", "r", "o"
Path_i_a == <<105, 47, 97>>
Path_i_t == <<105, 47, 116>>
Path_j_a == <<106, 47, 97>>
Path_i_m == <<105, 47, 109>>
Path_o_z == <<111, 47, 122>>
Path_o_a == <<111, 47, 97>>
Path_z == <<122>>
Path_r == <<114>>
Path_o == <<111>>

TextBytes == {10, 13, 195, 169}
ImageBytes == {0, 255}
DefaultText == <<10>>
DefaultImage == <<255>>
TextContents == SeqsUpTo(TextBytes, MaxTextLen)
ImageContents == SeqsUpTo(ImageBytes, MaxImageLen)

EmptyManifest ==
    [version |-> <<>>, image_filename |-> <<>>, text_filename |-> <<>>,
     image_hash |-> <<>>, text_hash |-> <<>>]
PkInit ==
    [image |-> <<>>, raw_text |-> <<>>, text |-> <<>>, manifest |-> EmptyManifest,
     doc |-> <<>>, i |-> 0, z |-> ZstdNew]
UpInit ==
    [data |-> <<>>, image |-> <<>>, text |-> <<>>, manifest |-> JStr(<<>>),
     image_path |-> <<>>, text_path |-> <<>>]
NoUnpack == [status |-> "none", manifest |-> JStr(<<>>),
             image_path |-> <<>>, text_path |-> <<>>]
UnpackError(e) == [status |-> e, manifest |-> JStr(<<>>),
                   image_path |-> <<>>, text_path |-> <<>>]
NoValidation == [status |-> "none", image_hash_match |-> FALSE, text_hash_match |-> FALSE]
NoForgery == [shape |-> "none", image_filename |-> <<>>, text_filename |-> <<>>,
              image_b64 |-> <<>>, text_b64 |-> <<>>]
EnvInit == [forged |-> NoForgery, tampered |-> "none"]
\* no stream is being written or read
CodecIdle == [phase |-> "idle", x |-> <<>>, i |-> 0, z |-> ZstdNew, fed |-> <<>>,
              frame |-> <<>>, buffer |-> <<>>]

R(p) == Resolve(dirs, p).path
InDir(d, names) == {Append(d, n) : n \in names}

\* The directories i and j hold the sources; o, r and the archive are the
\* calls' to make, unless a file is already present at output_filepath.
BaseDirs == {Root, Cwd} \cup InDir(Cwd, {<<105>>, <<106>>})
SourceFiles(img, txt, second) ==
    LET a == Cwd \o <<<<105>>, <<97>>>>
        t == Cwd \o <<<<105>>, <<116>>>>
        ja == Cwd \o <<<<106>>, <<97>>>>
    IN  [q \in {a, t} \cup (IF second THEN {ja} ELSE {}) |->
            IF q = a THEN img ELSE txt]

InitCommon ==
    /\ pc = "idle"
    /\ pk = PkInit
    /\ up = UpInit
    /\ packResult = "none"
    /\ unpackResult = NoUnpack
    /\ validation = NoValidation
    /\ calls = 0
    /\ log = <<>>
    /\ snap = [files |-> files, dirs |-> dirs, before |-> files]
    /\ written = {}
    /\ env = EnvInit
    /\ codec = CodecIdle
    /\ workers = <<>>

\* every content of one source, at the usual paths
InitContents ==
    /\ \E img \in ImageContents, txt \in TextContents :
          /\ img = DefaultImage \/ txt = DefaultText
          /\ files = SourceFiles(img, txt, FALSE)
    /\ dirs = BaseDirs
    /\ args = [image_path |-> Path_i_a, ocr_text_path |-> Path_i_t,
               output_filepath |-> Path_o_z, output_dir |-> Path_r]
    /\ InitCommon

\* every choice of paths, with or without a file already at output_filepath
InitPaths ==
    /\ \E ip \in {Path_i_a, Path_i_m}, tp \in {Path_i_t, Path_j_a, Path_i_m},
          op \in {Path_o_z, Path_o_a, Path_z}, od \in {Path_r, Path_o},
          pre \in BOOLEAN :
          /\ args = [image_path |-> ip, ocr_text_path |-> tp,
                     output_filepath |-> op, output_dir |-> od]
          /\ dirs = BaseDirs \cup (IF pre /\ op # Path_z THEN InDir(Cwd, {Path_o}) ELSE {})
          /\ files = IF pre
                     THEN WithFile(SourceFiles(DefaultImage, DefaultText, TRUE),
                                   Resolve(BaseDirs \cup InDir(Cwd, {Path_o}), op).path,
                                   <<0>>)
                     ELSE SourceFiles(DefaultImage, DefaultText, TRUE)
    /\ InitCommon

Init == InitContents \/ InitPaths

Begin(op) ==
    /\ pc = "idle"
    /\ calls < MaxCalls
    /\ calls' = calls + 1
    /\ snap' = [files |-> files, dirs |-> dirs, before |-> snap.files]
    /\ written' = {}

\* a call ends: its locals are gone
EndCall(op) ==
    /\ pc' = "idle"
    /\ log' = Append(log, op)
    /\ pk' = PkInit
    /\ up' = UpInit

(***************************************************************************)
(* encoder.pack_newspaper_page(image_path, ocr_text_path, gtd_manager,     *)
(* output_filepath), statement by statement.                               *)
(***************************************************************************)
PackRaise(e) ==
    /\ packResult' = e
    /\ EndCall("pack")

\* with open(image_path, 'rb') as f: original_image_bytes = f.read()
PackReadImage ==
    /\ Begin("pack")
    /\ IF CanRead(files, dirs, args.image_path)
       THEN /\ pk' = [PkInit EXCEPT !.image = FileAt(files, dirs, args.image_path)]
            /\ pc' = "pack_read_text"
            /\ packResult' = "running"
            /\ UNCHANGED <<up, log>>
       ELSE PackRaise("SourceNotFound")
    /\ UNCHANGED <<files, dirs, args, unpackResult, validation, env, codec, workers>>

\* PackReadText with the destination opened before the text is read
MutPackReadText ==
    /\ pc = "pack_read_text"
    /\ IF /\ CanRead(files, dirs, args.ocr_text_path)
          /\ TextRead(FileAt(files, dirs, args.ocr_text_path)).ok
       THEN /\ pk' = [pk EXCEPT
                        !.raw_text = FileAt(files, dirs, args.ocr_text_path),
                        !.text = TextRead(FileAt(files, dirs, args.ocr_text_path)).s]
            /\ pc' = "pack_build"
            /\ UNCHANGED <<up, log, packResult, files>>
       ELSE /\ PackRaise("SourceNotFound")
            /\ files' = IF CanCreate(files, dirs, args.output_filepath)
                        THEN WithFile(files, R(args.output_filepath), <<>>)
                        ELSE files
    /\ UNCHANGED <<dirs, args, unpackResult, validation, calls, snap, written, env, codec, workers>>

\* with open(ocr_text_path, 'r', encoding='utf-8') as f:
\*     original_text_content = f.read()
PackReadText ==
    /\ pc = "pack_read_text"
    /\ IF /\ CanRead(files, dirs, args.ocr_text_path)
          /\ TextRead(FileAt(files, dirs, args.ocr_text_path)).ok
       THEN /\ pk' = [pk EXCEPT
                        !.raw_text = FileAt(files, dirs, args.ocr_text_path),
                        !.text = TextRead(FileAt(files, dirs, args.ocr_text_path)).s]
            /\ pc' = "pack_build"
            /\ UNCHANGED <<up, log, packResult>>
       ELSE PackRaise("SourceNotFound")
    /\ UNCHANGED <<files, dirs, args, unpackResult, validation, calls, snap, written, env, codec, workers>>

\* the manifest pack assembles
seed_manifest(image_path, ocr_text_path, original_image_bytes, original_text_content) ==
    [version |-> VersionString,
     image_filename |-> basename(image_path),
     text_filename |-> basename(ocr_text_path),
     image_hash |-> generate_sha256_hash_bytes(original_image_bytes),
     text_hash |-> generate_sha256_hash_str(original_text_content)]

bundle_data(manifest, original_image_bytes, original_text_content) ==
    [manifest |-> manifest,
     original_image_b64 |-> b64encode(original_image_bytes),
     original_text_b64 |-> b64encode(Utf8Encode(original_text_content))]

\* the hashes, the manifest, the bundle and its serialization
PackBuild ==
    /\ pc = "pack_build"
    /\ LET m == seed_manifest(args.image_path, args.ocr_text_path, pk.image, pk.text)
       IN  pk' = [pk EXCEPT !.manifest = m,
                            !.doc = json_dumps(bundle_data(m, pk.image, pk.text))]
    /\ pc' = "pack_makedirs"
    /\ UNCHANGED <<files, dirs, args, up, packResult, unpackResult, validation,
                   calls, log, snap, written, env, codec, workers>>

\* os.makedirs(os.path.dirname(output_filepath), exist_ok=True)
PackMakedirs ==
    /\ pc = "pack_makedirs"
    /\ LET r == makedirs(files, dirs, dirname(args.output_filepath))
       IN  IF r.ok
           THEN /\ dirs' = r.dirs
                /\ pc' = "pack_open"
                /\ UNCHANGED <<pk, up, log, packResult>>
           ELSE /\ PackRaise("IoError")
                /\ UNCHANGED dirs
    /\ UNCHANGED <<files, args, unpackResult, validation, calls, snap, written, env, codec, workers>>

\* cctx = zstd.ZstdCompressor(level=19)
\* with open(output_filepath, 'wb') as f_out:
\*     with cctx.stream_writer(f_out) as compressor:
PackOpen ==
    /\ pc = "pack_open"
    /\ IF CanCreate(files, dirs, args.output_filepath)
       THEN /\ files' = WithFile(files, R(args.output_filepath), <<>>)
            /\ written' = written \cup {R(args.output_filepath)}
            /\ pk' = [pk EXCEPT !.i = 0, !.z = ZstdNew]
            /\ pc' = "pack_write"
            /\ UNCHANGED <<up, log, packResult>>
       ELSE /\ PackRaise("IoError")
            /\ UNCHANGED <<files, written>>
    /\ UNCHANGED <<dirs, args, unpackResult, validation, calls, snap, env, codec, workers>>

\* PackChunk with the slice one byte short
MutPackChunk(doc, i) ==
    SubSeq(doc, i + 1, IF i + CHUNK_SIZE - 1 < Len(doc) THEN i + CHUNK_SIZE - 1 ELSE Len(doc))

\* for i in range(0, len(serialized_bundle), CHUNK_SIZE):
\*     chunk = serialized_bundle[i:i + CHUNK_SIZE]
\*     compressor.write(chunk)
PackChunk(doc, i) == SubSeq(doc, i + 1, IF i + CHUNK_SIZE < Len(doc) THEN i + CHUNK_SIZE ELSE Len(doc))

PackWrite ==
    /\ pc = "pack_write"
    /\ pk.i < Len(pk.doc)
    /\ LET w == ZstdWrite(pk.z, PackChunk(pk.doc, pk.i))
           out == R(args.output_filepath)
       IN  /\ files' = WithFile(files, out, files[out] \o w.out)
           /\ pk' = [pk EXCEPT !.i = pk.i + CHUNK_SIZE, !.z = w.z]
    /\ UNCHANGED <<dirs, args, pc, up, packResult, unpackResult, validation,
                   calls, log, snap, written, env, codec, workers>>

\* the loop is over: the stream_writer ends the frame and the file is closed
PackClose ==
    /\ pc = "pack_write"
    /\ pk.i >= Len(pk.doc)
    /\ LET out == R(args.output_filepath)
       IN  files' = WithFile(files, out, files[out] \o ZstdEnd(pk.z))
    /\ pc' = "pack_report"
    /\ UNCHANGED <<dirs, args, pk, up, packResult, unpackResult, validation,
                   calls, log, snap, written, env, codec, workers>>

\* compressed_size = f_out.tell(), the three prints, return output_filepath
PackReturn ==
    /\ pc = "pack_report"
    /\ packResult' = "ok"
    /\ EndCall("pack")
    /\ UNCHANGED <<files, dirs, args, unpackResult, validation, calls, snap, written, env, codec, workers>>

Pack == PackReadImage \/ PackReadText \/ PackBuild \/ PackMakedirs \/ PackOpen
        \/ PackWrite \/ PackClose \/ PackReturn

(***************************************************************************)
(* decoder.unpack_newspaper_page(compressed_seed_filepath, output_dir),    *)
(* statement by statement.  The archive is the file at output_filepath.    *)
(***************************************************************************)
UnpackRaise(e) ==
    /\ unpackResult' = UnpackError(e)
    /\ EndCall("unpack")

\* with open(compressed_seed_filepath, 'rb') as f_in:
\*     with dctx.stream_reader(f_in) as reader: ... the read loop
UnpackRead ==
    /\ Begin("unpack")
    /\ IF CanRead(files, dirs, args.output_filepath)
       THEN \E o \in DecompressOutcomes(FileAt(files, dirs, args.output_filepath)) :
              IF o.ok
              THEN /\ up' = [UpInit EXCEPT !.data = o.data]
                   /\ pc' = "unpack_parse"
                   /\ unpackResult' = [NoUnpack EXCEPT !.status = "running"]
                   /\ UNCHANGED <<pk, log>>
              ELSE UnpackRaise("DecompressionError")
       ELSE UnpackRaise("SourceNotFound")
    /\ UNCHANGED <<files, dirs, args, packResult, validation, env, codec, workers>>

DeserializeFail == [ok |-> FALSE, image |-> <<>>, text |-> <<>>, manifest |-> JStr(<<>>)]

\* bundle_data = json.loads(decompressed_bundle_bytes.decode('utf-8'))
\* original_image_bytes = safe_b64_decode(bundle_data["original_image_b64"])
\* original_text_content =
\*     safe_b64_decode(bundle_data["original_text_b64"]).decode('utf-8')
\* manifest = bundle_data["manifest"]
deserialize(data) ==
    LET d == Utf8Decode(data) IN
    IF ~d.ok THEN DeserializeFail
    ELSE LET j == json_loads(d.s) IN
      IF ~j.ok \/ ~HasKey(j.v, K_original_image_b64) THEN DeserializeFail
      ELSE LET ib == j.v.o[K_original_image_b64] IN
        IF ~IsStr(ib) \/ ~safe_b64_decode(ib.s).ok \/ ~HasKey(j.v, K_original_text_b64)
        THEN DeserializeFail
        ELSE LET tb == j.v.o[K_original_text_b64] IN
          IF ~IsStr(tb) \/ ~safe_b64_decode(tb.s).ok THEN DeserializeFail
          ELSE LET t == Utf8Decode(safe_b64_decode(tb.s).bytes) IN
            IF ~t.ok \/ ~HasKey(j.v, K_manifest) THEN DeserializeFail
            ELSE [ok |-> TRUE, image |-> safe_b64_decode(ib.s).bytes, text |-> t.s,
                  manifest |-> j.v.o[K_manifest]]

\* the parse with output_dir made and the image file opened for writing
\* before a bundle that fails to deserialize is rejected
MutUnpackParse ==
    /\ pc = "unpack_parse"
    /\ LET b == deserialize(up.data)
           early == join(args.output_dir, <<97>>)
           r == makedirs(files, dirs, args.output_dir)
       IN  IF b.ok
           THEN /\ up' = [up EXCEPT !.image = b.image, !.text = b.text,
                                    !.manifest = b.manifest]
                /\ pc' = "unpack_makedirs"
                /\ UNCHANGED <<pk, log, unpackResult, files, dirs, written>>
           ELSE /\ UnpackRaise("MalformedBundle")
                /\ IF r.ok /\ CanCreate(files, r.dirs, early)
                   THEN /\ dirs' = r.dirs
                        /\ files' = WithFile(files, Resolve(r.dirs, early).path, <<>>)
                        /\ written' = written \cup {Resolve(r.dirs, early).path}
                   ELSE UNCHANGED <<files, dirs, written>>
    /\ UNCHANGED <<args, packResult, validation, calls, snap, env, codec, workers>>

UnpackParse ==
    /\ pc = "unpack_parse"
    /\ LET b == deserialize(up.data)
       IN  IF b.ok
           THEN /\ up' = [up EXCEPT !.image = b.image, !.text = b.text,
                                    !.manifest = b.manifest]
                /\ pc' = "unpack_makedirs"
                /\ UNCHANGED <<pk, log, unpackResult>>
           ELSE UnpackRaise("MalformedBundle")
    /\ UNCHANGED <<files, dirs, args, packResult, validation, calls, snap, written, env, codec, workers>>

\* os.makedirs(output_dir, exist_ok=True)
UnpackMakedirs ==
    /\ pc = "unpack_makedirs"
    /\ LET r == makedirs(files, dirs, args.output_dir)
       IN  IF r.ok
           THEN /\ dirs' = r.dirs
                /\ pc' = "unpack_names"
                /\ UNCHANGED <<pk, up, log, unpackResult>>
           ELSE /\ UnpackRaise("IoError")
                /\ UNCHANGED dirs
    /\ UNCHANGED <<files, args, packResult, validation, calls, snap, written, env, codec, workers>>

\* reconstructed_path with the manifest's name joined as it is
MutReconstructedPath(output_dir, filename) == join(output_dir, filename)

\* os.path.join(output_dir, os.path.basename(manifest[key]))
reconstructed_path(output_dir, filename) == join(output_dir, basename(filename))

\* image_filename = os.path.basename(manifest["image_filename"]), and so on
UnpackNames ==
    /\ pc = "unpack_names"
    /\ IF /\ HasKey(up.manifest, K_image_filename)
          /\ IsStr(up.manifest.o[K_image_filename])
          /\ HasKey(up.manifest, K_text_filename)
          /\ IsStr(up.manifest.o[K_text_filename])
       THEN /\ up' = [up EXCEPT
                        !.image_path = reconstructed_path(args.output_dir,
                                           up.manifest.o[K_image_filename].s),
                        !.text_path = reconstructed_path(args.output_dir,
                                           up.manifest.o[K_text_filename].s)]
            /\ pc' = "unpack_write_image"
            /\ UNCHANGED <<pk, log, unpackResult>>
       ELSE UnpackRaise("MalformedBundle")
    /\ UNCHANGED <<files, dirs, args, packResult, validation, calls, snap, written, env, codec, workers>>

\* with open(reconstructed_image_path, 'wb') as f: f.write(original_image_bytes)
UnpackWriteImage ==
    /\ pc = "unpack_write_image"
    /\ IF CanCreate(files, dirs, up.image_path)
       THEN /\ files' = WithFile(files, R(up.image_path), up.image)
            /\ written' = written \cup {R(up.image_path)}
            /\ pc' = "unpack_write_text"
            /\ UNCHANGED <<pk, up, log, unpackResult>>
       ELSE /\ UnpackRaise("IoError")
            /\ UNCHANGED <<files, written>>
    /\ UNCHANGED <<dirs, args, packResult, validation, calls, snap, env, codec, workers>>

\* with open(reconstructed_text_path, 'w', encoding='utf-8') as f:
\*     f.write(original_text_content)
\* return {"manifest": ..., "reconstructed_image_path": ..., ...}
UnpackWriteText ==
    /\ pc = "unpack_write_text"
    /\ IF CanCreate(files, dirs, up.text_path)
       THEN /\ files' = WithFile(files, R(up.text_path), TextWrite(up.text))
            /\ written' = written \cup {R(up.text_path)}
            /\ unpackResult' = [status |-> "ok", manifest |-> up.manifest,
                                image_path |-> up.image_path, text_path |-> up.text_path]
            /\ EndCall("unpack")
       ELSE /\ UnpackRaise("IoError")
            /\ UNCHANGED <<files, written>>
    /\ UNCHANGED <<dirs, args, packResult, validation, calls, snap, env, codec, workers>>

Unpack == UnpackRead \/ UnpackParse \/ UnpackMakedirs \/ UnpackNames
          \/ UnpackWriteImage \/ UnpackWriteText

(***************************************************************************)
(* validator.validate_reconstruction(manifest, reconstructed_image_path,   *)
(* reconstructed_text_path): the dict it returns, or "raised".             *)
(***************************************************************************)
Raised == [status |-> "raised", image_hash_match |-> FALSE, text_hash_match |-> FALSE]

validate_reconstruction(fs, ds, manifest, image_path, text_path) ==
    IF ~CanRead(fs, ds, image_path) \/ ~HasKey(manifest, K_image_hash) THEN Raised
    ELSE IF \/ ~CanRead(fs, ds, text_path)
            \/ ~TextRead(FileAt(fs, ds, text_path)).ok
            \/ ~HasKey(manifest, K_text_hash)
    THEN Raised
    ELSE [status |-> "ok",
          image_hash_match |->
              manifest.o[K_image_hash] =
                  JStr(generate_sha256_hash_bytes(FileAt(fs, ds, image_path))),
          text_hash_match |->
              manifest.o[K_text_hash] =
                  JStr(generate_sha256_hash_str(TextRead(FileAt(fs, ds, text_path)).s))]

\* the caller validates what the last unpack returned
Validate ==
    /\ Begin("validate")
    /\ unpackResult.status = "ok"
    /\ validation' = validate_reconstruction(files, dirs, unpackResult.manifest,
                                             unpackResult.image_path,
                                             unpackResult.text_path)
    /\ log' = Append(log, "validate")
    /\ UNCHANGED <<files, dirs, args, pc, pk, up, packResult, unpackResult, env, codec, workers>>

Next == Pack \/ Unpack \/ Validate

Spec == Init /\ [][Next]_vars

(***************************************************************************)
(* The environment of the calls.  Between calls another process can change *)
(* a byte of a reconstructed file or of the archive, or put an archive of  *)
(* its own making at output_filepath; a running pack can be killed, or one *)
(* of its writes can fail.                                                 *)
(***************************************************************************)
TamperBytes == {10, 13, 65, 255}

\* one byte of one reconstructed file of a validated round trip changes
TamperReconstructed ==
    /\ pc = "idle"
    /\ log = <<"pack", "unpack">>
    /\ packResult = "ok"
    /\ unpackResult.status = "ok"
    /\ R(unpackResult.image_path) # R(unpackResult.text_path)
    /\ validate_reconstruction(files, dirs, unpackResult.manifest,
                               unpackResult.image_path, unpackResult.text_path)
           = [status |-> "ok", image_hash_match |-> TRUE, text_hash_match |-> TRUE]
    /\ \E which \in {"image", "text"} :
          LET f == R(IF which = "image" THEN unpackResult.image_path
                     ELSE unpackResult.text_path)
          IN  \E pos \in 1..Len(files[f]) :
                 \E b \in TamperBytes \ {files[f][pos]} :
                    /\ files' = WithFile(files, f, [files[f] EXCEPT ![pos] = b])
                    /\ env' = [env EXCEPT !.tampered = which]
    /\ log' = Append(log, "tamper")
    /\ UNCHANGED <<dirs, args, pc, pk, up, packResult, unpackResult, validation,
                   calls, snap, written, codec, workers>>

SpecTamper == Init /\ [][Next \/ TamperReconstructed]_vars

CorruptBytes == {0, 10, 98, 255}

\* one byte of the archive the first pack has written changes
CorruptArchive ==
    /\ pc = "idle"
    /\ log = <<"pack">>
    /\ packResult = "ok"
    /\ LET out == R(args.output_filepath)
       IN  \E pos \in 1..Len(files[out]) :
              \E b \in CorruptBytes \ {files[out][pos]} :
                 files' = WithFile(files, out, [files[out] EXCEPT ![pos] = b])
    /\ log' = Append(log, "corrupt")
    /\ UNCHANGED <<dirs, args, pc, pk, up, packResult, unpackResult, validation,
                   calls, snap, written, env, codec, workers>>

\* the sources and paths of the runs with a corrupted archive
InitCorrupt ==
    /\ \E txt \in SeqsUpTo(TextBytes, 1) : files = SourceFiles(DefaultImage, txt, FALSE)
    /\ dirs = BaseDirs
    /\ args = [image_path |-> Path_i_a, ocr_text_path |-> Path_i_t,
               output_filepath |-> Path_o_z, output_dir |-> Path_r]
    /\ InitCommon

SpecCorrupt == InitCorrupt /\ [][Next \/ CorruptArchive]_vars

\* The archives of another writer: a bundle with any file names in its
\* manifest, a bundle with any base64 text as a payload, and documents that
\* are no bundle.
NameChars == {46, 47, 97}
ForgedNames == SeqsUpTo(NameChars, MaxNameLen)
\* base64.b64encode(b"") and base64.b64encode(b"A")
CanonicalB64 == {b64encode(<<>>), b64encode(<<65>>)}
\* "QR==", "!QQ==", "QQ==QQ==", "QQ=", "QQ", "Q"
ForgedB64 == CanonicalB64 \cup
             {<<81, 82, 61, 61>>, <<33, 81, 81, 61, 61>>,
              <<81, 81, 61, 61, 81, 81, 61, 61>>,
              <<81, 81, 61>>, <<81, 81>>, <<81>>}
ForgedShapes == {"no_manifest", "no_image", "no_text", "flat_manifest",
                 "not_object", "not_json"}
Forgery(shape, image_filename, text_filename, image_b64, text_b64) ==
    [shape |-> shape, image_filename |-> image_filename,
     text_filename |-> text_filename, image_b64 |-> image_b64, text_b64 |-> text_b64]
Forgeries ==
    LET a == <<97>>
        t == <<116>>
        q == b64encode(<<65>>)
    IN  {Forgery("bundle", n, t, q, q) : n \in ForgedNames}
        \cup {Forgery("bundle", a, n, q, q) : n \in ForgedNames}
        \cup {Forgery("bundle", a, t, b, q) : b \in ForgedB64}
        \cup {Forgery("bundle", a, t, q, b) : b \in ForgedB64}
        \cup {Forgery(sh, a, t, q, q) : sh \in ForgedShapes}

\* the document of a forgery, as json.dumps writes the parts it has
ForgedDoc(f) ==
    LET m == [version |-> VersionString, image_filename |-> f.image_filename,
              text_filename |-> f.text_filename,
              image_hash |-> generate_sha256_hash_bytes(<<65>>),
              text_hash |-> generate_sha256_hash_bytes(<<65>>)]
        man == JsonKey(K_manifest) \o
                   (IF f.shape = "flat_manifest" THEN JsonString(<<120>>)
                    ELSE DumpManifest(m))
        img == JsonKey(K_original_image_b64) \o JsonString(f.image_b64)
        txt == JsonKey(K_original_text_b64) \o JsonString(f.text_b64)
    IN  Utf8Encode(
          CASE f.shape = "no_manifest" -> <<123>> \o img \o JsonSep \o txt \o <<125>>
            [] f.shape = "no_image" -> <<123>> \o man \o JsonSep \o txt \o <<125>>
            [] f.shape = "no_text" -> <<123>> \o man \o JsonSep \o img \o <<125>>
            [] f.shape = "not_object" -> JsonString(<<120>>)
            [] f.shape = "not_json" -> <<123>> \o man
            [] OTHER -> <<123>> \o man \o JsonSep \o img \o JsonSep \o txt \o <<125>>)

\* an archive of another writer is put at output_filepath
ForgeArchive ==
    /\ pc = "idle"
    /\ log = <<>>
    /\ makedirs(files, dirs, dirname(args.output_filepath)).ok
    /\ dirs' = makedirs(files, dirs, dirname(args.output_filepath)).dirs
    /\ \E f \in Forgeries :
          /\ files' = WithFile(files, Resolve(dirs', args.output_filepath).path,
                               Compress(ForgedDoc(f)))
          /\ env' = [env EXCEPT !.forged = f]
    /\ log' = Append(log, "forge")
    /\ UNCHANGED <<args, pc, pk, up, packResult, unpackResult, validation,
                   calls, snap, written, codec, workers>>

\* the sources and paths of the runs with a forged archive
InitForge ==
    /\ files = SourceFiles(DefaultImage, DefaultText, FALSE)
    /\ dirs = BaseDirs
    /\ \E od \in {Path_r, Path_o} :
          args = [image_path |-> Path_i_a, ocr_text_path |-> Path_i_t,
                  output_filepath |-> Path_o_z, output_dir |-> od]
    /\ InitCommon

\* the archive of another writer is only unpacked
NextForge == ForgeArchive \/ Unpack

SpecForge == InitForge /\ [][NextForge]_vars

\* a pack has been killed or has failed in a write (the log has it as "abort")
Aborted == \E k \in 1..Len(log) : log[k] = "abort"

\* the bytes that reach the file when pack stops before its "with" blocks
\* are left: what was written, and once every chunk is fed also the end of
\* the frame
PackPending ==
    files[R(args.output_filepath)]
        \o (IF pk.i >= Len(pk.doc) THEN ZstdEnd(pk.z) ELSE <<>>)

\* the process is killed while pack runs, at or after os.makedirs: of the
\* bytes on their way to the file any prefix is there afterwards
PackKilled ==
    /\ pc \in {"pack_open", "pack_write", "pack_report"}
    /\ ~Aborted
    /\ IF pc = "pack_write"
       THEN \E n \in 0..Len(PackPending) :
               files' = WithFile(files, R(args.output_filepath), Take(PackPending, n))
       ELSE UNCHANGED files
    /\ packResult' = "killed"
    /\ EndCall("abort")
    /\ UNCHANGED <<dirs, args, unpackResult, validation, calls, snap, written, env, codec, workers>>

\* compressor.write(chunk) raises: leaving the "with" blocks closes the
\* file, after the stream_writer has or has not ended the frame (the
\* library's versions differ)
PackWriteFails ==
    /\ pc = "pack_write"
    /\ pk.i < Len(pk.doc)
    /\ ~Aborted
    /\ \E fin \in BOOLEAN :
          LET out == R(args.output_filepath)
          IN  files' = WithFile(files, out,
                                files[out] \o (IF fin THEN ZstdEnd(pk.z) ELSE <<>>))
    /\ packResult' = "IoError"
    /\ EndCall("abort")
    /\ UNCHANGED <<dirs, args, unpackResult, validation, calls, snap, written, env, codec, workers>>

\* the sources and paths of the runs with an aborted pack
InitCrash ==
    /\ \E pre \in BOOLEAN :
          /\ dirs = BaseDirs \cup (IF pre THEN InDir(Cwd, {Path_o}) ELSE {})
          /\ files = IF pre
                     THEN WithFile(SourceFiles(DefaultImage, DefaultText, FALSE),
                                   Resolve(BaseDirs \cup InDir(Cwd, {Path_o}), Path_o_z).path,
                                   <<0>>)
                     ELSE SourceFiles(DefaultImage, DefaultText, FALSE)
    /\ args = [image_path |-> Path_i_a, ocr_text_path |-> Path_i_t,
               output_filepath |-> Path_o_z, output_dir |-> Path_r]
    /\ InitCommon

SpecCrash == InitCrash /\ [][Next \/ PackKilled \/ PackWriteFails]_vars

(***************************************************************************)
(* The stream codec on its own: the chunk loop of pack over a byte string  *)
(* x (lines 283-285) into a frame, and the read loop of unpack (lines      *)
(* 316-320) over that frame into its buffer.                               *)
(***************************************************************************)
\* the lengths around the multiples of CHUNK_SIZE
CodecLens == {n \in {k * CHUNK_SIZE + d : k \in 0..MaxChunks, d \in {-1, 0, 1}} : n >= 0}
CodecInput(n, start, step) == [k \in 1..n |-> (start + step * (k - 1)) % 256]

InitCodec ==
    /\ \E n \in CodecLens, start \in {0, 255}, step \in {0, 1, 85} :
          codec = [CodecIdle EXCEPT !.phase = "write", !.x = CodecInput(n, start, step)]
    /\ files = SourceFiles(DefaultImage, DefaultText, FALSE)
    /\ dirs = BaseDirs
    /\ args = [image_path |-> Path_i_a, ocr_text_path |-> Path_i_t,
               output_filepath |-> Path_o_z, output_dir |-> Path_r]
    /\ pc = "idle"
    /\ pk = PkInit
    /\ up = UpInit
    /\ packResult = "none"
    /\ unpackResult = NoUnpack
    /\ validation = NoValidation
    /\ calls = 0
    /\ log = <<>>
    /\ snap = [files |-> files, dirs |-> dirs, before |-> files]
    /\ written = {}
    /\ env = EnvInit
    /\ workers = <<>>

CodecUnchanged ==
    UNCHANGED <<files, dirs, args, pc, pk, up, packResult, unpackResult, validation,
                calls, log, snap, written, env, workers>>

\* chunk = serialized_bundle[i:i + CHUNK_SIZE]; compressor.write(chunk)
CodecWrite ==
    /\ codec.phase = "write"
    /\ codec.i < Len(codec.x)
    /\ LET chunk == PackChunk(codec.x, codec.i)
           w == ZstdWrite(codec.z, chunk)
       IN  codec' = [codec EXCEPT !.i = codec.i + CHUNK_SIZE, !.z = w.z,
                                  !.fed = codec.fed \o chunk,
                                  !.frame = codec.frame \o w.out]
    /\ CodecUnchanged

\* range() is exhausted: the stream_writer ends the frame
CodecClose ==
    /\ codec.phase = "write"
    /\ codec.i >= Len(codec.x)
    /\ codec' = [codec EXCEPT !.phase = "read",
                              !.frame = codec.frame \o ZstdEnd(codec.z)]
    /\ CodecUnchanged

\* chunk = reader.read(CHUNK_SIZE); if not chunk: break;
\* decompressed_data_buffer.write(chunk)
CodecRead ==
    /\ codec.phase = "read"
    /\ LET d == ZstdDecode(codec.frame)
           from == Len(codec.buffer)
           chunk == SubSeq(d.data, from + 1, Min({from + CHUNK_SIZE, Len(d.data)}))
       IN  IF d.status # "ok" THEN codec' = [codec EXCEPT !.phase = "error"]
           ELSE IF chunk = <<>> THEN codec' = [codec EXCEPT !.phase = "done"]
           ELSE codec' = [codec EXCEPT !.buffer = codec.buffer \o chunk]
    /\ CodecUnchanged

NextCodec == CodecWrite \/ CodecClose \/ CodecRead

SpecCodec == InitCodec /\ [][NextCodec]_vars

\* both loops are sequential code that runs on until it ends
SpecCodecLive == SpecCodec /\ WF_vars(NextCodec)

(***************************************************************************)
(* Two calls at the same time.  Each worker runs pack_newspaper_page or    *)
(* unpack_newspaper_page, one statement per step, on the shared file       *)
(* system; the steps of the two interleave freely.  A worker keeps the     *)
(* paths it opened for reading and for writing.                            *)
(***************************************************************************)
WorkerResult(status, manifest, image_path, text_path) ==
    [status |-> status, manifest |-> manifest,
     image_path |-> image_path, text_path |-> text_path]

Worker(op, a) ==
    [op |-> op, args |-> a, pc |-> "start", pk |-> PkInit, up |-> UpInit,
     result |-> WorkerResult("none", JStr(<<>>), <<>>, <<>>), reads |-> {}, writes |-> {}]

WorkerOut(w, fs, ds) == [w |-> w, fs |-> fs, ds |-> ds]
\* the call raises e
WorkerRaise(w, e, fs, ds) ==
    WorkerOut([w EXCEPT !.pc = "done",
                        !.result = WorkerResult(e, JStr(<<>>), <<>>, <<>>)], fs, ds)

\* the next statement of a pack (lines 242-293) on the file system fs, ds
PackSteps(w, fs, ds) ==
    LET a == w.args
        out == Resolve(ds, a.output_filepath).path
    IN
    CASE w.pc = "start" ->
           LET r == [w EXCEPT !.reads = @ \cup {abspath(a.image_path)}]
           IN  IF CanRead(fs, ds, a.image_path)
               THEN {WorkerOut([r EXCEPT !.pc = "read_text",
                                         !.pk.image = FileAt(fs, ds, a.image_path)],
                               fs, ds)}
               ELSE {WorkerRaise(r, "SourceNotFound", fs, ds)}
      [] w.pc = "read_text" ->
           LET r == [w EXCEPT !.reads = @ \cup {abspath(a.ocr_text_path)}]
           IN  IF /\ CanRead(fs, ds, a.ocr_text_path)
                  /\ TextRead(FileAt(fs, ds, a.ocr_text_path)).ok
               THEN {WorkerOut([r EXCEPT
                                  !.pc = "build",
                                  !.pk.raw_text = FileAt(fs, ds, a.ocr_text_path),
                                  !.pk.text = TextRead(FileAt(fs, ds, a.ocr_text_path)).s],
                               fs, ds)}
               ELSE {WorkerRaise(r, "SourceNotFound", fs, ds)}
      [] w.pc = "build" ->
           LET m == seed_manifest(a.image_path, a.ocr_text_path, w.pk.image, w.pk.text)
           IN  {WorkerOut([w EXCEPT
                             !.pc = "makedirs",
                             !.pk.manifest = m,
                             !.pk.doc = json_dumps(bundle_data(m, w.pk.image, w.pk.text))],
                          fs, ds)}
      [] w.pc = "makedirs" ->
           LET r == makedirs(fs, ds, dirname(a.output_filepath))
           IN  IF r.ok THEN {WorkerOut([w EXCEPT !.pc = "open"], fs, r.dirs)}
               ELSE {WorkerRaise(w, "IoError", fs, ds)}
      [] w.pc = "open" ->
           IF CanCreate(fs, ds, a.output_filepath)
           THEN {WorkerOut([w EXCEPT !.pc = "write", !.pk.i = 0, !.pk.z = ZstdNew,
                                     !.writes = @ \cup {out}],
                           WithFile(fs, out, <<>>), ds)}
           ELSE {WorkerRaise(w, "IoError", fs, ds)}
      [] w.pc = "write" ->
           IF w.pk.i < Len(w.pk.doc)
           THEN LET c == ZstdWrite(w.pk.z, PackChunk(w.pk.doc, w.pk.i))
                IN  {WorkerOut([w EXCEPT !.pk.i = @ + CHUNK_SIZE, !.pk.z = c.z],
                               WithFile(fs, out, fs[out] \o c.out), ds)}
           ELSE {WorkerOut([w EXCEPT !.pc = "report"],
                           WithFile(fs, out, fs[out] \o ZstdEnd(w.pk.z)), ds)}
      [] OTHER ->
           {WorkerOut([w EXCEPT !.pc = "done",
                                !.result = WorkerResult("ok", JStr(<<>>),
                                                        a.output_filepath, <<>>)],
                      fs, ds)}

\* the next statement of an unpack (lines 311-354) on the file system fs, ds
UnpackSteps(w, fs, ds) ==
    LET a == w.args IN
    CASE w.pc = "start" ->
           LET r == [w EXCEPT !.reads = @ \cup {abspath(a.output_filepath)}]
           IN  IF CanRead(fs, ds, a.output_filepath)
               THEN {IF o.ok
                     THEN WorkerOut([r EXCEPT !.pc = "parse", !.up.data = o.data], fs, ds)
                     ELSE WorkerRaise(r, "DecompressionError", fs, ds) :
                     o \in DecompressOutcomes(FileAt(fs, ds, a.output_filepath))}
               ELSE {WorkerRaise(r, "SourceNotFound", fs, ds)}
      [] w.pc = "parse" ->
           LET b == deserialize(w.up.data)
           IN  IF b.ok
               THEN {WorkerOut([w EXCEPT !.pc = "makedirs", !.up.image = b.image,
                                         !.up.text = b.text,
                                         !.up.manifest = b.manifest], fs, ds)}
               ELSE {WorkerRaise(w, "MalformedBundle", fs, ds)}
      [] w.pc = "makedirs" ->
           LET r == makedirs(fs, ds, a.output_dir)
           IN  IF r.ok THEN {WorkerOut([w EXCEPT !.pc = "names"], fs, r.dirs)}
               ELSE {WorkerRaise(w, "IoError", fs, ds)}
      [] w.pc = "names" ->
           IF /\ HasKey(w.up.manifest, K_image_filename)
              /\ IsStr(w.up.manifest.o[K_image_filename])
              /\ HasKey(w.up.manifest, K_text_filename)
              /\ IsStr(w.up.manifest.o[K_text_filename])
           THEN {WorkerOut([w EXCEPT
                              !.pc = "write_image",
                              !.up.image_path =
                                  reconstructed_path(a.output_dir,
                                      w.up.manifest.o[K_image_filename].s),
                              !.up.text_path =
                                  reconstructed_path(a.output_dir,
                                      w.up.manifest.o[K_text_filename].s)], fs, ds)}
           ELSE {WorkerRaise(w, "MalformedBundle", fs, ds)}
      [] w.pc = "write_image" ->
           IF CanCreate(fs, ds, w.up.image_path)
           THEN LET q == Resolve(ds, w.up.image_path).path
                IN  {WorkerOut([w EXCEPT !.pc = "write_text", !.writes = @ \cup {q}],
                               WithFile(fs, q, w.up.image), ds)}
           ELSE {WorkerRaise(w, "IoError", fs, ds)}
      [] OTHER ->
           IF CanCreate(fs, ds, w.up.text_path)
           THEN LET q == Resolve(ds, w.up.text_path).path
                IN  {WorkerOut([w EXCEPT
                                  !.pc = "done", !.writes = @ \cup {q},
                                  !.result = WorkerResult("ok", w.up.manifest,
                                                 w.up.image_path, w.up.text_path)],
                               WithFile(fs, q, TextWrite(w.up.text)), ds)}
           ELSE {WorkerRaise(w, "IoError", fs, ds)}

WorkerSteps(w, fs, ds) ==
    IF w.op = "pack" THEN PackSteps(w, fs, ds) ELSE UnpackSteps(w, fs, ds)

\* worker k executes its next statement
WorkerStep(k) ==
    /\ workers[k].pc # "done"
    /\ \E r \in WorkerSteps(workers[k], files, dirs) :
          /\ workers' = [workers EXCEPT ![k] = r.w]
          /\ files' = r.fs
          /\ dirs' = r.ds
    /\ UNCHANGED <<args, pc, pk, up, packResult, unpackResult, validation,
                   calls, log, snap, written, env, codec>>

\* the archive pack writes for a file a holding image and a file t holding text
ArchiveOf(image, text) ==
    LET t == TextRead(text).s
    IN  Compress(json_dumps(bundle_data(seed_manifest(Path_i_a, Path_i_t, image, t),
                                        image, t)))

\* The first worker works on the archive z and the second on the archive y:
\* a pack of i/a, i/t or of r/a, r/t writes it into the new directory p, an
\* unpack reads it from o and reconstructs into r or into s.  The two
\* archives in o hold different pages under the same file names.
WorkerChoices(k) ==
    LET name == IF k = 1 THEN <<122>> ELSE <<121>>
    IN  {Worker("pack", [image_path |-> src[1], ocr_text_path |-> src[2],
                         output_filepath |-> <<112, 47>> \o name,
                         output_dir |-> <<>>]) :
            src \in {<<Path_i_a, Path_i_t>>, <<<<114, 47, 97>>, <<114, 47, 116>>>>}}
        \cup {Worker("unpack", [image_path |-> <<>>, ocr_text_path |-> <<>>,
                                output_filepath |-> <<111, 47>> \o name,
                                output_dir |-> od]) :
                 od \in {Path_r, <<115>>}}

InitWorkers ==
    /\ workers \in {<<w1, w2>> : w1 \in WorkerChoices(1), w2 \in WorkerChoices(2)}
    /\ dirs = BaseDirs \cup InDir(Cwd, {Path_o})
    /\ files = LET o == Cwd \o <<Path_o>>
               IN  WithFile(WithFile(SourceFiles(DefaultImage, DefaultText, FALSE),
                                     Append(o, <<122>>),
                                     ArchiveOf(DefaultImage, DefaultText)),
                            Append(o, <<121>>), ArchiveOf(<<0>>, <<13>>))
    /\ args = [image_path |-> Path_i_a, ocr_text_path |-> Path_i_t,
               output_filepath |-> Path_o_z, output_dir |-> Path_r]
    /\ pc = "idle"
    /\ pk = PkInit
    /\ up = UpInit
    /\ packResult = "none"
    /\ unpackResult = NoUnpack
    /\ validation = NoValidation
    /\ calls = 0
    /\ log = <<>>
    /\ snap = [files |-> files, dirs |-> dirs, before |-> files]
    /\ written = {}
    /\ env = EnvInit
    /\ codec = CodecIdle

NextWorkers == WorkerStep(1) \/ WorkerStep(2)

SpecWorkers == InitWorkers /\ [][NextWorkers]_vars

(***************************************************************************)
(* The claims.                                                             *)
(***************************************************************************)
UnpackPcs == {"unpack_parse", "unpack_makedirs", "unpack_names",
              "unpack_write_image", "unpack_write_text"}
Archive == Resolve(dirs, args.output_filepath).path

\* an unpack has just returned, after a pack that returned
RoundTripDone ==
    /\ pc = "idle"
    /\ LogEnds(<<"pack", "unpack">>)
    /\ packResult = "ok"
    /\ unpackResult.status = "ok"

\* C1: after pack and then unpack of the archive it produced, the
\* reconstructed asset file holds the bytes of the original asset file and
\* the reconstructed text file holds the bytes of the original text file,
\* whatever the two (distinct) input paths and the contents are.
C1_RoundTripIdentity ==
    (RoundTripDone /\ args.image_path # args.ocr_text_path) =>
        /\ FileAt(files, dirs, unpackResult.image_path)
               = FileAt(files, dirs, args.image_path)
        /\ FileAt(files, dirs, unpackResult.text_path)
               = FileAt(files, dirs, args.ocr_text_path)

\* C2: validate_reconstruction, called with what a successful unpack of a
\* successfully packed archive returned, returns image_hash_match = true and
\* text_hash_match = true.
C2_ValidatorAcceptsRoundTrip ==
    (pc = "idle" /\ LogEnds(<<"pack", "unpack", "validate">>) /\ packResult = "ok") =>
        /\ validation.status = "ok"
        /\ validation.image_hash_match
        /\ validation.text_hash_match

\* C3: after one byte of one reconstructed file of a successful round trip
\* is changed to another value, validate_reconstruction returns normally,
\* with the changed file's match flag false and the other file's flag true.
C3_ValidatorDetectsTamper ==
    (pc = "idle" /\ LogEnds(<<"tamper", "validate">>)) =>
        /\ validation.status = "ok"
        /\ validation.image_hash_match = (env.tampered # "image")
        /\ validation.text_hash_match = (env.tampered # "text")

\* C4: whatever file names the manifest of an archive holds, every file
\* unpack creates or overwrites is a direct child of output_dir.
C4_WritesInsideOutputDir ==
    (pc \in UnpackPcs \/ (pc = "idle" /\ last = "unpack")) =>
        \A w \in written :
            /\ w # R(args.output_dir)
            /\ Parent(w) = R(args.output_dir)

\* unpack has written both files of an archive whose manifest names the
\* image "../a"
C4_Witness ==
    /\ pc = "idle"
    /\ last = "unpack"
    /\ unpackResult.status = "ok"
    /\ env.forged.shape = "bundle"
    /\ env.forged.image_filename = <<46, 46, 47, 97>>
    /\ Cardinality(written) = 2

\* C5: after one byte of an archive that pack wrote is changed, unpack
\* fails, or it succeeds and validate_reconstruction on what it returned
\* reports at least one of the two match flags false.
C5_CorruptionNotSilentlyAccepted ==
    (pc = "idle" /\ log = <<"pack", "corrupt", "unpack", "validate">>) =>
        ~(validation.status = "ok" /\ validation.image_hash_match
                                   /\ validation.text_hash_match)

\* the archive is not a bundle: its document does not parse to an object, a
\* required key is absent, or a payload is not the base64 encoding of bytes
MalformedForgery(f) ==
    \/ f.shape \notin {"bundle", "flat_manifest"}
    \/ f.image_b64 \notin CanonicalB64
    \/ f.text_b64 \notin CanonicalB64

\* C6: unpack fails whenever the decompressed document does not parse to an
\* object, or one of the keys manifest, original_image_b64 and
\* original_text_b64 is absent, or the base64 string of a payload has a
\* character outside the alphabet, is non-canonical or is truncated.
C6_MalformedBundleRejected ==
    (pc = "idle" /\ log = <<"forge", "unpack">> /\ MalformedForgery(env.forged)) =>
        unpackResult.status # "ok"

\* a pack was aborted at or after os.makedirs, and nothing has run since
AfterAbortedPack ==
    \/ last = "abort"
    \/ last = "pack" /\ packResult = "IoError"

\* the serialized bundle a pack of the sources writes
CompleteDoc ==
    LET image == FileAt(files, dirs, args.image_path)
        text == TextRead(FileAt(files, dirs, args.ocr_text_path)).s
    IN  json_dumps(bundle_data(seed_manifest(args.image_path, args.ocr_text_path,
                                             image, text), image, text))

\* C7 as stated: after a pack that failed or was interrupted at or after
\* the creation of the output directory, the file at output_filepath does
\* not exist or unpack rejects it.
C7_AbortedPackLeavesNoAcceptableFile ==
    (pc = "idle" /\ LogEnds(<<"unpack">>) /\ Len(log) >= 2
        /\ \/ log[Len(log) - 1] = "abort"
           \/ log[Len(log) - 1] = "pack" /\ packResult = "IoError") =>
        unpackResult.status # "ok"

\* C7, amended: when unpack reads the file an aborted pack leaves at
\* output_filepath and the data it decompresses deserializes to a bundle,
\* either the file still holds the bytes it had before that pack began or
\* the data is the complete serialized bundle: never a part of it.
C7_AbortedPackNeverYieldsPartialBundle ==
    (pc = "unpack_parse" /\ AfterAbortedPack /\ deserialize(up.data).ok) =>
        \/ /\ Archive \in DOMAIN snap.before
           /\ files[Archive] = snap.before[Archive]
        \/ up.data = CompleteDoc

\* unpack has decompressed the whole bundle from the file of a pack that
\* was killed after its last chunk
C7_Witness ==
    /\ pc = "unpack_parse"
    /\ last = "abort"
    /\ packResult = "killed"
    /\ deserialize(up.data).ok
    /\ up.data = CompleteDoc

\* C9: in the manifest pack builds, image_hash is the digest of exactly the
\* bytes of the asset file and text_hash is the digest of exactly the bytes
\* of the text file as they are stored on disk.
C9_DigestsCoverOriginalBytes ==
    pc = "pack_makedirs" =>
        /\ pk.manifest.image_hash = Sha256Hex(FileAt(files, dirs, args.image_path))
        /\ pk.manifest.text_hash = Sha256Hex(FileAt(files, dirs, args.ocr_text_path))

\* C8: when the asset path or the text path cannot be read, pack fails
\* before any output side effect: no file and no directory is created, and a
\* file already present at output_filepath keeps its bytes.
C8_MissingSourceLeavesDestination ==
    (pc = "idle" /\ last = "pack" /\ packResult = "SourceNotFound") =>
        /\ files = snap.files
        /\ dirs = snap.dirs

\* pack failed on an unreadable text file while a file was present at
\* output_filepath
C8_Witness ==
    /\ pc = "idle"
    /\ last = "pack"
    /\ packResult = "SourceNotFound"
    /\ CanRead(files, dirs, args.image_path)
    /\ CanRead(files, dirs, args.output_filepath)

\* C10: unpack and validate leave the bytes of the archive file unchanged,
\* whatever the archive, the output directory and the manifest are.
C10_ArchiveReadOnly ==
    ((pc \in UnpackPcs \/ (pc = "idle" /\ last \in {"unpack", "validate"}))
        /\ Archive \in DOMAIN snap.files) =>
        /\ Archive \in DOMAIN files
        /\ files[Archive] = snap.files[Archive]

\* C11: for a byte string x of any length, the chunks the pack loop feeds
\* the compressor are x in order, nothing skipped or repeated; the chunks
\* the unpack loop appends are x again (decompress(compress(x)) = x); and
\* both loops end.
C11_CodecInverse ==
    /\ [](/\ codec.phase = "write" =>
                codec.fed = Take(codec.x, Min({codec.i, Len(codec.x)}))
          /\ codec.phase \in {"read", "done"} =>
                /\ codec.fed = codec.x
                /\ IsPrefix(codec.buffer, codec.x)
          /\ codec.phase = "done" => codec.buffer = codec.x
          /\ codec.phase # "error")
    /\ <>(codec.phase = "done")

\* the read loop has ended on a stream of two chunks and one byte more
C11_Witness ==
    /\ codec.phase = "done"
    /\ Len(codec.x) = 2 * CHUNK_SIZE + 1
    /\ codec.buffer = codec.x
    /\ codec.x[1] # codec.x[2]

\* the call of w on its own, from the file system fs, ds to its end
RECURSIVE RunAlone(_, _, _)
RunAlone(w, fs, ds) ==
    IF w.pc = "done" THEN WorkerOut(w, fs, ds)
    ELSE LET r == CHOOSE r \in WorkerSteps(w, fs, ds) : TRUE
         IN  RunAlone(r.w, r.fs, r.ds)

\* The two calls on their own, each from the file system the run began with.
Alone(k) == RunAlone(Worker(workers[k].op, workers[k].args), snap.files, snap.dirs)
BothDone == workers # <<>> /\ \A k \in {1, 2} : workers[k].pc = "done"
\* worker k returned what it returns alone, and the files it writes alone
\* hold what they hold after it ran alone
AsAlone(k) ==
    /\ workers[k].result = Alone(k).w.result
    /\ \A q \in Alone(k).w.writes : q \in DOMAIN files /\ files[q] = Alone(k).fs[q]
\* a file one call opens for writing is opened by the other
SharedFile ==
    \E k \in {1, 2} :
        Alone(k).w.writes \cap (Alone(3 - k).w.reads \cup Alone(3 - k).w.writes) # {}

NamesLookedUp ==
    /\ deserialize(up.data).ok
    /\ up.manifest = deserialize(up.data).manifest
    /\ HasKey(up.manifest, K_image_filename) /\ IsStr(up.manifest.o[K_image_filename])
    /\ HasKey(up.manifest, K_text_filename) /\ IsStr(up.manifest.o[K_text_filename])

\* C13: unpack decompresses, parses, decodes both payloads and looks up
\* the manifest and both file names before it opens the first reconstructed
\* file for writing; an unpack that fails to decompress or on a malformed
\* bundle has created and modified no file.
C13_ValidatesBeforeWrites ==
    /\ pc \in {"unpack_parse", "unpack_makedirs", "unpack_names"} =>
          written = {} /\ files = snap.files
    /\ pc = "unpack_write_image" =>
          written = {} /\ files = snap.files /\ NamesLookedUp
    /\ pc = "unpack_write_text" => written # {} /\ NamesLookedUp
    /\ pc = "idle" /\ last = "unpack"
          /\ unpackResult.status \in {"DecompressionError", "MalformedBundle"} =>
          written = {} /\ files = snap.files

\* An unpack created output_dir and then failed on a file name the manifest
\* does not hold: no file was written.
C13_Witness ==
    /\ pc = "idle" /\ last = "unpack"
    /\ unpackResult.status = "MalformedBundle"
    /\ R(args.output_dir) \in dirs \ snap.dirs
    /\ files = snap.files

=============================================================================
